---- MODULE Spec2Model ----
(***************************************************************************)
(* The comment panel of the community detail view                          *)
(* (src/components/CommunityDetailView/CommunityDetailComment.vue):        *)
(* an in-memory list of comments for the post named by the postId prop,    *)
(* mirrored into localStorage under "comments_" + postId, changed by        *)
(* handleSubmit and handleDelete (each awaits a remote call), reloaded by   *)
(* the postId watcher and onMounted, and relabelled by a 60 s interval.     *)
(*                                                                         *)
(* One step of the model is one run-to-completion piece of JavaScript:      *)
(* a handler up to its await, or the continuation after the awaited call    *)
(* resolves or rejects.                                                     *)
(***************************************************************************)
EXTENDS Integers, Sequences, FiniteSets, Bags, TLC

VARIABLES
  authStore,   \* useAuthStore(): userId, token, fullName
  postId,      \* props.postId
  mounted,     \* onMounted has run
  comments,    \* comments.value
  storage,     \* localStorage, by key
  value,       \* value.value, the draft text (a sequence of characters)
  submitting,  \* submitting.value
  pending,     \* remote calls awaited and not yet settled (a bag)
  created,     \* remote service: the post of every comment it created, in id order
  issued,      \* the number of remote calls made so far
  persisted,   \* history: per post, the list last handed to saveCommentsToStorage
  sinceWatch,  \* history: the watcher loaded the list on display, and no submit
               \* or delete made for the displayed post has succeeded since
  last         \* history: the step that led to this state

vars == <<authStore, postId, mounted, comments, storage, value, submitting,
          pending, created, issued, persisted, sinceWatch, last>>

---------------------------------------------------------------------------
(* Bounds *)
MaxCalls == 2     \* remote calls the panel makes in one run

---------------------------------------------------------------------------
(* Values *)
\* the post identifiers the host may pass: non-empty strings, so the
\* watcher's test of newPostId (line 118) always passes
Posts == {"42", "43"}
\* what the user may have typed into the textarea
Drafts == {<<>>, <<" ">>, <<" ", "h">>}
\* the wall-clock times at which the interval may fire
TickTimes == {10, 20}

NullStr == "<null>"          \* null of a string-typed store field
NullItem == <<>>             \* null of localStorage.getItem
Anonymous == "anonymous"     \* the fallback author name of line 84
DummyAvatar == "/images/user-dummy.png"

\* x ?? d
Nullish(x, d) == IF x = NullStr THEN d ELSE x

AuthStates ==
  { [userId |-> NullStr, token |-> NullStr, fullName |-> NullStr],
    [userId |-> "u1", token |-> "t1", fullName |-> "Alice"] }

userId == Nullish(authStore.userId, "")
token == Nullish(authStore.token, "")

\* String.prototype.trim on a sequence of characters
RECURSIVE TrimStart(_)
TrimStart(s) == IF s # <<>> /\ Head(s) = " " THEN TrimStart(Tail(s)) ELSE s
RECURSIVE TrimEnd(_)
TrimEnd(s) ==
  IF s # <<>> /\ s[Len(s)] = " " THEN TrimEnd(SubSeq(s, 1, Len(s) - 1)) ELSE s
trim(s) == TrimEnd(TrimStart(s))

---------------------------------------------------------------------------
(* JSON text of a list of objects: the tag "json" and, per object, the      *)
(* sequence of its <<key, value>> pairs in property order.                  *)
PropertyOrder == <<"id", "author", "avatar", "content", "datetime", "relativeTime">>

JSONstringifyObject(c) ==
  LET keys == SelectSeq(PropertyOrder, LAMBDA k : k \in DOMAIN c)
  IN  [i \in 1..Len(keys) |-> <<keys[i], c[keys[i]]>>]

JSONstringify(list) ==
  <<"json", [i \in 1..Len(list) |-> JSONstringifyObject(list[i])]>>

JSONparseObject(o) ==
  [k \in {o[i][1] : i \in DOMAIN o} |->
      o[CHOOSE i \in DOMAIN o : o[i][1] = k][2]]

JSONparse(text) == [i \in 1..Len(text[2]) |-> JSONparseObject(text[2][i])]

StorageKey(pid) == "comments_" \o pid
Keys == {StorageKey(p) : p \in Posts}

\* getStoredComments reading a key nothing is saved under
getStoredComments_OtherKey(pid, store) == <<>>

\* lines 29-32, with props.postId = pid and localStorage = store
getStoredComments(pid, store) ==
  LET saved == store[StorageKey(pid)]
  IN  IF saved # NullItem THEN JSONparse(saved) ELSE <<>>

\* saveCommentsToStorage that writes nothing
saveCommentsToStorage_Skipped(pid, store, list) == store

\* saveCommentsToStorage after localStorage.clear(): the other entries are lost
saveCommentsToStorage_ClearsOthers(pid, store, list) ==
  [k \in DOMAIN store |->
     IF k = StorageKey(pid) THEN JSONstringify(list) ELSE NullItem]

\* lines 41-43
saveCommentsToStorage(pid, store, list) ==
  [store EXCEPT ![StorageKey(pid)] = JSONstringify(list)]

---------------------------------------------------------------------------
(* The remote service and the comments an earlier session left cached *)
OldComment(id, author) ==
  [id |-> id, author |-> author, avatar |-> DummyAvatar, content |-> <<"h">>,
   datetime |-> id]
\* what localStorage may hold for a post when the panel is created: nothing,
\* or (for post "42") two comments of an earlier session, newest first
OldComments == <<OldComment(2, "Alice"), OldComment(1, "Bob")>>
OldLists(p) == IF p = "42" THEN {<<>>, OldComments} ELSE {<<>>}
OldCount == Len(OldComments)

\* the id the service gives to the next comment it creates
NextId == OldCount + Len(created) + 1

\* the post a comment id was created for
PostOf(id) == IF id <= OldCount THEN "42" ELSE created[id - OldCount]

IdsOf(list) == {list[i].id : i \in 1..Len(list)}

\* createComment's response, lines 79 and 83-87
CreateResponse(call) ==
  [_id |-> NextId, comment |-> call.text, createdAt |-> NextId]

\* the record of a step: the handler piece that ran, the post and comment id
\* it was about, what it showed the user, and (for a delete) whether the
\* comment was in the list when it ran
Step(op, post, id, ui, present) ==
  [op |-> op, post |-> post, id |-> id, ui |-> ui, present |-> present]

---------------------------------------------------------------------------
(* The state after <script setup> has run: lines 20-38 *)
Init ==
  /\ authStore \in AuthStates
  /\ postId \in Posts
  /\ mounted = FALSE
  /\ persisted \in [Posts -> UNION {OldLists(p) : p \in Posts}]
  /\ \A p \in Posts : persisted[p] \in OldLists(p)
  /\ storage = [k \in Keys |->
       LET p == CHOOSE q \in Posts : StorageKey(q) = k
       IN  IF persisted[p] = <<>> THEN NullItem ELSE JSONstringify(persisted[p])]
  /\ comments = getStoredComments(postId, storage)
  /\ value = <<>>
  /\ submitting = FALSE
  /\ pending = EmptyBag
  /\ created = <<>>
  /\ issued = 0
  /\ sinceWatch = FALSE
  /\ last = Step("setup", postId, 0, "none", FALSE)

\* lines 125-128
OnMounted ==
  /\ ~mounted
  /\ mounted' = TRUE
  /\ comments' = getStoredComments(postId, storage)
  /\ last' = Step("mounted", postId, 0, "none", FALSE)
  /\ UNCHANGED <<authStore, postId, storage, value, submitting, pending,
                 created, issued, persisted, sinceWatch>>

---------------------------------------------------------------------------
(* handleSubmit, lines 54-98 *)

\* the blank test without trim: !value.value
DraftIsBlank_NoTrim == value = <<>>

\* line 55: !value.value.trim()
DraftIsBlank == trim(value) = <<>>

\* the identity check left out
IdentityAbsent_Unchecked == FALSE

\* line 56: !userId.value
IdentityAbsent == userId = ""

\* newComment taking its content from the textarea, not from the response
newComment_FromDraft(response) ==
  [id |-> response._id,
   author |-> Nullish(authStore.fullName, Anonymous),
   avatar |-> DummyAvatar,
   content |-> value,
   datetime |-> response.createdAt]

\* lines 82-88
newComment(response) ==
  [id |-> response._id,
   author |-> Nullish(authStore.fullName, Anonymous),
   avatar |-> DummyAvatar,
   content |-> response.comment,
   datetime |-> response.createdAt]

\* push in place of unshift: the new comment goes to the end
unshift_Push(list, c) == list \o <<c>>

\* line 89: Array.prototype.unshift
unshift(list, c) == <<c>> \o list

\* line 79: the arguments of createComment
CreateCall == [kind |-> "create", post |-> postId, text |-> value, id |-> 0,
               token |-> token]

\* lines 54-79: the click handler up to its await
HandleSubmit ==
  /\ mounted
  /\ IF DraftIsBlank
       THEN /\ last' = Step("submitBlank", postId, 0, "none", FALSE)
            /\ UNCHANGED <<submitting, pending, issued>>
       ELSE IF IdentityAbsent
         THEN /\ last' = Step("submitNoLogin", postId, 0, "loginModal", FALSE)
              /\ UNCHANGED <<submitting, pending, issued>>
         ELSE /\ issued < MaxCalls
              /\ issued' = issued + 1
              /\ submitting' = TRUE
              /\ pending' = pending (+) SetToBag({CreateCall})
              /\ last' = Step("submitCalled", postId, 0, "none", FALSE)
  /\ UNCHANGED <<authStore, postId, mounted, comments, storage, value,
                 created, persisted, sinceWatch>>

\* lines 80-91 and 95-97: createComment resolved
CreateResolved(call) ==
  /\ call.kind = "create"
  /\ LET response == CreateResponse(call)
         list == unshift(comments, newComment(response))
     IN  /\ comments' = list
         /\ storage' = saveCommentsToStorage(postId, storage, list)
         /\ persisted' = [persisted EXCEPT ![postId] = list]
         /\ value' = <<>>
         /\ submitting' = FALSE
         /\ created' = Append(created, call.post)
         /\ pending' = pending (-) SetToBag({call})
         /\ sinceWatch' = (sinceWatch /\ call.post # postId)
         /\ last' = Step("createOk", call.post, response._id, "none", FALSE)
  /\ UNCHANGED <<authStore, postId, mounted, issued>>

\* CreateRejected that clears the textarea, as the success path does
CreateRejected_ClearsDraft(call) ==
  /\ call.kind = "create"
  /\ submitting' = FALSE
  /\ value' = <<>>
  /\ pending' = pending (-) SetToBag({call})
  /\ last' = Step("createFailed", call.post, 0, "alert", FALSE)
  /\ UNCHANGED <<authStore, postId, mounted, comments, storage, created,
                 issued, persisted, sinceWatch>>

\* CreateRejected without the finally block: submitting is reset only on success
CreateRejected_NoFinally(call) ==
  /\ call.kind = "create"
  /\ pending' = pending (-) SetToBag({call})
  /\ last' = Step("createFailed", call.post, 0, "alert", FALSE)
  /\ UNCHANGED <<authStore, postId, mounted, comments, storage, value,
                 submitting, created, issued, persisted, sinceWatch>>

\* lines 92-97: createComment rejected
CreateRejected(call) ==
  /\ call.kind = "create"
  /\ submitting' = FALSE
  /\ pending' = pending (-) SetToBag({call})
  /\ last' = Step("createFailed", call.post, 0, "alert", FALSE)
  /\ UNCHANGED <<authStore, postId, mounted, comments, storage, value,
                 created, issued, persisted, sinceWatch>>

---------------------------------------------------------------------------
(* handleDelete, lines 101-112 *)

\* lines 162-163: the delete icon is rendered for the user's own comments
DeleteOffered(c) == c.author = authStore.fullName

\* removal by findIndex and splice: splice(-1, 1) drops the last element when
\* the id is not in the list
filterOut_Splice(list, commentId) ==
  IF \E i \in 1..Len(list) : list[i].id = commentId
    THEN SelectSeq(list, LAMBDA c : c.id # commentId)
    ELSE SubSeq(list, 1, Len(list) - 1)

\* line 106: Array.prototype.filter
filterOut(list, commentId) == SelectSeq(list, LAMBDA c : c.id # commentId)

\* line 105: the arguments of deleteComment; post is the post displayed when
\* the icon was clicked (not an argument of the call)
DeleteCall(commentId) ==
  [kind |-> "delete", post |-> postId, text |-> <<>>, id |-> commentId,
   token |-> token]

\* HandleDelete that calls deleteComment whatever confirm() returned
HandleDelete_IgnoresAnswer(k, confirmed) ==
  /\ mounted
  /\ DeleteOffered(comments[k])
  /\ issued < MaxCalls
  /\ issued' = issued + 1
  /\ pending' = pending (+) SetToBag({DeleteCall(comments[k].id)})
  /\ last' = Step(IF confirmed THEN "deleteCalled" ELSE "deleteDeclined", postId,
                  comments[k].id, "none", TRUE)
  /\ UNCHANGED <<authStore, postId, mounted, comments, storage, value,
                 submitting, created, persisted, sinceWatch>>

\* lines 101-105: the click handler up to its await; confirmed is the answer
\* to confirm()
HandleDelete(k, confirmed) ==
  /\ mounted
  /\ DeleteOffered(comments[k])
  /\ IF ~confirmed
       THEN /\ last' = Step("deleteDeclined", postId, comments[k].id, "none", TRUE)
            /\ UNCHANGED <<pending, issued>>
       ELSE /\ issued < MaxCalls
            /\ issued' = issued + 1
            /\ pending' = pending (+) SetToBag({DeleteCall(comments[k].id)})
            /\ last' = Step("deleteCalled", postId, comments[k].id, "none", TRUE)
  /\ UNCHANGED <<authStore, postId, mounted, comments, storage, value,
                 submitting, created, persisted, sinceWatch>>

\* lines 106-107: deleteComment resolved
DeleteResolved(call) ==
  /\ call.kind = "delete"
  /\ LET list == filterOut(comments, call.id)
     IN  /\ comments' = list
         /\ storage' = saveCommentsToStorage(postId, storage, list)
         /\ persisted' = [persisted EXCEPT ![postId] = list]
         /\ pending' = pending (-) SetToBag({call})
         /\ sinceWatch' = (sinceWatch /\ call.post # postId)
         /\ last' = Step("deleteOk", call.post, call.id, "none",
                         call.id \in IdsOf(comments))
  /\ UNCHANGED <<authStore, postId, mounted, value, submitting, created,
                 issued>>

\* DeleteRejected after an optimistic removal that is not rolled back
DeleteRejected_Optimistic(call) ==
  /\ call.kind = "delete"
  /\ comments' = SelectSeq(comments, LAMBDA c : c.id # call.id)
  /\ pending' = pending (-) SetToBag({call})
  /\ last' = Step("deleteFailed", call.post, call.id, "alert",
                  call.id \in IdsOf(comments))
  /\ UNCHANGED <<authStore, postId, mounted, storage, value, submitting,
                 created, issued, persisted, sinceWatch>>

\* lines 108-111: deleteComment rejected
DeleteRejected(call) ==
  /\ call.kind = "delete"
  /\ pending' = pending (-) SetToBag({call})
  /\ last' = Step("deleteFailed", call.post, call.id, "alert",
                  call.id \in IdsOf(comments))
  /\ UNCHANGED <<authStore, postId, mounted, comments, storage, value,
                 submitting, created, issued, persisted, sinceWatch>>

---------------------------------------------------------------------------
(* The postId watcher, the interval and the textarea *)

\* lines 115-122: the host gives the panel another post
WatchPostId(newPostId) ==
  /\ mounted
  /\ newPostId # postId
  /\ postId' = newPostId
  /\ comments' = IF newPostId # "" THEN getStoredComments(newPostId, storage)
                 ELSE comments
  /\ sinceWatch' = TRUE
  /\ last' = Step("postIdChanged", postId, 0, "none", FALSE)
  /\ UNCHANGED <<authStore, mounted, storage, value, submitting, pending,
                 created, issued, persisted>>

\* line 49: dayjs(datetime).fromNow() when the wall clock reads t
fromNow(datetime, t) == t - datetime

\* relabel that writes the label over the creation timestamp
relabel_OverDatetime(list, t) ==
  [i \in 1..Len(list) |->
     [list[i] EXCEPT !.datetime = fromNow(list[i].datetime, t)]]

\* lines 47-50
relabel(list, t) ==
  [i \in 1..Len(list) |->
     [k \in DOMAIN list[i] \cup {"relativeTime"} |->
        IF k = "relativeTime" THEN fromNow(list[i].datetime, t) ELSE list[i][k]]]

\* lines 46-51: the interval fires when the wall clock reads t
Tick(t) ==
  /\ mounted
  /\ comments' = relabel(comments, t)
  /\ last' = Step("tick", postId, 0, "none", FALSE)
  /\ UNCHANGED <<authStore, postId, mounted, storage, value, submitting,
                 pending, created, issued, persisted, sinceWatch>>

\* line 141: v-model:value="value"
Input(text) ==
  /\ mounted
  /\ text # value
  /\ value' = text
  /\ last' = Step("input", postId, 0, "none", FALSE)
  /\ UNCHANGED <<authStore, postId, mounted, comments, storage, submitting,
                 pending, created, issued, persisted, sinceWatch>>

---------------------------------------------------------------------------
Next ==
  \/ OnMounted
  \/ HandleSubmit
  \/ \E call \in BagToSet(pending) : CreateResolved(call)
  \/ \E call \in BagToSet(pending) : CreateRejected(call)
  \/ \E k \in 1..Len(comments), confirmed \in BOOLEAN : HandleDelete(k, confirmed)
  \/ \E call \in BagToSet(pending) : DeleteResolved(call)
  \/ \E call \in BagToSet(pending) : DeleteRejected(call)
  \/ \E newPostId \in Posts : WatchPostId(newPostId)
  \/ \E t \in TickTimes : Tick(t)
  \/ \E text \in Drafts : Input(text)

Spec == Init /\ [][Next]_vars

\* every createComment call is settled in the end: the promise awaited at
\* line 79 resolves or rejects
CreateSettled ==
  \E call \in BagToSet(pending) : CreateResolved(call) \/ CreateRejected(call)

FairSpec == Spec /\ WF_vars(CreateSettled)

---------------------------------------------------------------------------
(* The claims *)

\* a cached or displayed element read as a Comment: id, author, avatar,
\* content and creation timestamp
CommentFields == {"id", "author", "avatar", "content", "datetime"}
AsComments(list) ==
  [i \in 1..Len(list) |-> [k \in CommentFields |-> list[i][k]]]

Cached(pid) == getStoredComments(pid, storage)

\* C1: a submit whose create call succeeds prepends exactly one new comment
\* to the list, keeps the previous entries after it in their order, and
\* persists the resulting list under "comments_" + the post the comment was
\* submitted for (last'.post).
C1_SubmitPrependsAndPersists ==
  [][last'.op = "createOk" =>
       /\ Len(comments') = Len(comments) + 1
       /\ comments'[1].id = last'.id
       /\ last'.id \notin IdsOf(comments)
       /\ Tail(comments') = comments
       /\ storage'[StorageKey(last'.post)] = JSONstringify(comments')]_vars

\* C2: after a delete of X whose remote call succeeds, X is in neither the
\* list nor the cache entry of the post X belonged to, and the other comments
\* of that post keep their relative order in both.
C2_DeleteRemovesEverywhere ==
  [][last'.op = "deleteOk" =>
       LET X == last'.id
           P == PostOf(X)
           others(list) == AsComments(SelectSeq(list, LAMBDA c : c.id # X))
       IN  /\ X \notin IdsOf(comments')
           /\ X \notin IdsOf(getStoredComments(P, storage'))
           /\ AsComments(comments') = others(comments)
           /\ AsComments(getStoredComments(P, storage'))
                = others(getStoredComments(P, storage))]_vars

\* C3: from a change of postId until the next change or the next successful
\* submit or delete made for the displayed post, the list on display is the
\* cached list of the displayed post and holds no comment of another post.
C3_WatchShowsOnlyThePost ==
  sinceWatch =>
    /\ AsComments(comments) = AsComments(Cached(postId))
    /\ \A i \in 1..Len(comments) : PostOf(comments[i].id) = postId

\* C4: a load (setup, mount or postId change) yields exactly the list last
\* persisted for the post, in order, and the empty list when none was.
C4_LoadRoundTrip ==
  last.op \in {"setup", "mounted", "postIdChanged"} => comments = persisted[postId]

C4_Witness ==
  /\ last.op = "postIdChanged"
  /\ \E i \in 1..Len(comments) :
       comments[i].id > OldCount /\ "relativeTime" \in DOMAIN comments[i]

\* C5: a submit with a non-blank draft and no user identity leaves the list
\* unchanged, makes no remote call and only raises the login prompt.
C5_NoIdentityNoCall ==
  [][(/\ last'.op \in {"submitBlank", "submitNoLogin", "submitCalled"}
      /\ trim(value) # <<>>
      /\ authStore.userId = NullStr)
     => /\ comments' = comments
        /\ pending' = pending
        /\ issued' = issued
        /\ last'.ui = "loginModal"
        /\ UNCHANGED <<storage, value, submitting>>]_vars

C5_Witness ==
  /\ last.op = "submitNoLogin"
  /\ trim(value) # <<>>
  /\ authStore.userId = NullStr
  /\ comments # <<>>

\* C6: a delete step (declined, called, resolved or rejected) for an id that
\* is not in the list leaves the list as it was.
C6_DeleteAbsentIsNoOp ==
  [][(/\ last'.op \in {"deleteDeclined", "deleteCalled", "deleteOk", "deleteFailed"}
      /\ last'.id \notin IdsOf(comments))
     => comments' = comments]_vars

C6_Witness ==
  /\ last.op = "deleteOk"
  /\ ~last.present
  /\ comments # <<>>

\* C7: with nothing cached or displayed for the post, one successful submit
\* made for it yields the one-element list built from the response (its id,
\* content and creation timestamp) and the user's display name, and the cache
\* entry of the post is that list.
C7_FirstComment ==
  [][(/\ last'.op = "createOk"
      /\ last'.post = postId
      /\ comments = <<>>
      /\ Cached(postId) = <<>>)
     => \E call \in BagToSet(pending) :
          /\ call.kind = "create"
          /\ pending' = pending (-) SetToBag({call})
          /\ comments' = << [id |-> CreateResponse(call)._id,
                             author |-> authStore.fullName,
                             avatar |-> DummyAvatar,
                             content |-> CreateResponse(call).comment,
                             datetime |-> CreateResponse(call).createdAt] >>
          /\ storage'[StorageKey(postId)] = JSONstringify(comments')
          /\ getStoredComments(postId, storage') = comments']_vars

C7_Witness ==
  /\ last.op = "createOk"
  /\ last.post = postId
  /\ Len(comments) = 1
  /\ comments[1].id = last.id
  /\ comments[1].author = "Alice"
  /\ value = <<>>

\* C8: between events the cache entry of the displayed post, read as
\* Comments (absent = empty), is the list on display read as Comments; a
\* successful submit or delete writes the entry of the displayed post from
\* the list it has just changed, and no other step writes the cache.
C8_CacheMirrorsList ==
  /\ [](AsComments(Cached(postId)) = AsComments(comments))
  /\ [][/\ last'.op \in {"createOk", "deleteOk"}
            => storage'[StorageKey(postId')] = JSONstringify(comments')
        /\ storage' # storage => last'.op \in {"createOk", "deleteOk"}]_vars

C8_Witness ==
  /\ last.op = "deleteOk"
  /\ last.present
  /\ comments # <<>>
  /\ \E i \in 1..Len(comments) : "relativeTime" \in DOMAIN comments[i]

\* C9: when the create call fails, the list, the cache and the draft are as
\* before, the failure is reported by one alert, and no further call is made.
C9_CreateFailureKeepsState ==
  [][last'.op = "createFailed" =>
       /\ comments' = comments
       /\ storage' = storage
       /\ value' = value
       /\ last'.ui = "alert"
       /\ issued' = issued
       /\ BagCardinality(pending') = BagCardinality(pending) - 1]_vars

C9_Witness ==
  /\ last.op = "createFailed"
  /\ value # <<>>
  /\ comments # <<>>

\* C10: when the delete call fails, the list and the cache are as before
\* (the targeted comment still at its position) and the failure is reported.
C10_DeleteFailureKeepsState ==
  [][last'.op = "deleteFailed" =>
       /\ comments' = comments
       /\ storage' = storage
       /\ last'.ui = "alert"]_vars

C10_Witness ==
  /\ last.op = "deleteFailed"
  /\ last.present
  /\ last.id \in IdsOf(comments)
  /\ Len(comments) > 1

\* C11: when the user declines the confirmation, the delete has no side
\* effect: no remote call is made and the list, the cache, the draft and
\* submitting are unchanged.
C11_DeclinedDeleteNoEffect ==
  [][last'.op = "deleteDeclined" =>
       /\ pending' = pending
       /\ issued' = issued
       /\ comments' = comments
       /\ storage' = storage
       /\ last'.ui = "none"
       /\ UNCHANGED <<value, submitting, postId>>]_vars

C11_Witness ==
  /\ last.op = "deleteDeclined"
  /\ last.id \in IdsOf(comments)
  /\ issued < MaxCalls

\* C12: the continuation of every create call, resolved or rejected, sets
\* submitting to false, so that, every create call being settled in the end,
\* submitting always becomes false again; a submit stopped by the blank-text
\* or the identity check does not touch submitting.
C12_SubmittingIsReset ==
  /\ [][/\ last'.op \in {"createOk", "createFailed"} => ~submitting'
        /\ (/\ last'.op \in {"submitBlank", "submitNoLogin", "submitCalled"}
            /\ (trim(value) = <<>> \/ authStore.userId = NullStr))
           => submitting' = submitting]_vars
  /\ (submitting ~> ~submitting)

C12_Witness ==
  /\ last.op = "createFailed"
  /\ ~submitting
  /\ issued = MaxCalls

\* C13: a timer tick only refreshes the display: the id, author, avatar,
\* content and creation timestamp of every comment and the order and length
\* of the list are unchanged, no remote call is made and the cache is not
\* written.
C13_TickIsDisplayOnly ==
  [][last'.op = "tick" =>
       /\ Len(comments') = Len(comments)
       /\ AsComments(comments') = AsComments(comments)
       /\ pending' = pending
       /\ issued' = issued
       /\ storage' = storage]_vars

C13_Witness ==
  /\ last.op = "tick"
  /\ Len(comments) > 1
  /\ \A i \in 1..Len(comments) : "relativeTime" \in DOMAIN comments[i]
  /\ pending # EmptyBag

\* C14: in every reachable state the ids in the list are pairwise distinct
\* and the list is ordered newest-inserted first. The service gives ids in
\* increasing order in the step that inserts the comment, and the cached
\* comments of the earlier session are newest first, so "inserted later" is
\* "greater id".
C14_DistinctNewestFirst ==
  /\ \A i, j \in 1..Len(comments) : i # j => comments[i].id # comments[j].id
  /\ \A i, j \in 1..Len(comments) : i < j => comments[i].id > comments[j].id

C14_Witness ==
  /\ last.op = "createOk"
  /\ Len(comments) > 2
  /\ Len(created) > 1

\* C15: a submit whose draft is empty or only whitespace is silently
\* ignored: no remote call, no login prompt or alert, and the list, the
\* cache, the draft and submitting are unchanged.
C15_BlankSubmitIgnored ==
  [][(/\ last'.op \in {"submitBlank", "submitNoLogin", "submitCalled"}
      /\ trim(value) = <<>>)
     => /\ pending' = pending
        /\ issued' = issued
        /\ last'.ui = "none"
        /\ UNCHANGED <<comments, storage, value, submitting>>]_vars

C15_Witness ==
  /\ last.op = "submitBlank"
  /\ value = <<" ">>
  /\ submitting

\* C16: every cache write replaces the whole entry of the one key
\* "comments_" + the current postId by the list and leaves the entries of
\* the other posts as they were; no step removes an entry, and a load
\* (mount, postId change) or a tick does not write the cache.
C16_WritesOneKeyWholesale ==
  [][/\ \A k \in Keys : k # StorageKey(postId') => storage'[k] = storage[k]
     /\ (last'.op \in {"createOk", "deleteOk"} \/ storage' # storage)
          => storage'[StorageKey(postId')] = JSONstringify(comments')
     /\ \A k \in Keys : storage[k] # NullItem => storage'[k] # NullItem
     /\ last'.op \in {"mounted", "postIdChanged", "tick"} => storage' = storage]_vars

C16_Witness ==
  /\ last.op = "createOk"
  /\ postId = "43"
  /\ storage[StorageKey("42")] = JSONstringify(OldComments)
  /\ Len(comments) = 1

\* C17: when a create or delete call made for post P succeeds after postId
\* has changed to Q, its effect is applied to P only: the cache entry of Q is
\* not rewritten, and a comment created for P is in the cache entry of P and
\* neither in the list displayed for Q nor in the cache entry of Q.
C17_CrossPostIsolation ==
  [][(/\ last'.op \in {"createOk", "deleteOk"}
      /\ last'.post # postId)
     => /\ storage'[StorageKey(postId)] = storage[StorageKey(postId)]
        /\ last'.op = "createOk" =>
             /\ last'.id \notin IdsOf(comments')
             /\ last'.id \notin IdsOf(getStoredComments(postId, storage'))
             /\ last'.id \in IdsOf(getStoredComments(last'.post, storage'))
        /\ last'.op = "deleteOk" =>
             last'.id \notin IdsOf(getStoredComments(last'.post, storage'))]_vars

\* C18: in every reachable state submitting is true exactly when a create
\* call of the panel is in flight; when two submits overlap it stays true
\* until the last of their calls has completed.
C18_SubmittingIffInFlight ==
  submitting <=> (\E call \in BagToSet(pending) : call.kind = "create")

\* C19: every element ever persisted in a cache entry consists only of the
\* Comment fields (id, author, avatar, content, datetime); the relative-time
\* label computed by the timer tick is never written to the cache.
C19_CacheHoldsOnlyComments ==
  \A k \in Keys :
    storage[k] # NullItem =>
      \A i \in 1..Len(JSONparse(storage[k])) :
        DOMAIN JSONparse(storage[k])[i] = CommentFields
====
